---- MODULE Spec2Model ----
(***************************************************************************)
(* lambda-ses: the Lambda handler that routes one decoded HandlerInput to  *)
(* SESv2 (main.go), the envelope it returns, and the Node client that      *)
(* invokes the function (src/index.ts).                                    *)
(*                                                                         *)
(* A Go pointer or interface value is a sequence of length 0 (nil) or 1.   *)
(* A Go slice is a sequence; a nil slice is the empty sequence.  A Go map  *)
(* is a function from its keys.                                            *)
(***************************************************************************)
EXTENDS Integers, Sequences, FiniteSets, TLC

VARIABLES
    event,      \* the HandlerInput LambdaHandler was invoked with
    pc,         \* position of the invocation
    path,       \* branch LambdaHandler took: "single", "batch", "bulk", "none"
    idx,        \* sendEmails: index of the next entry of the range loop
    outputs,    \* sendEmails: var outputs []*sesv2.SendEmailOutput
    errs,       \* sendEmails: var errors []error
    bulkRet,    \* what sendBulkEmail returned: (output, err)
    calls,      \* every call made on the SESv2 client, in order, with its result
    out,        \* the HandlerOutput returned
    err,        \* the error returned beside it
    cl          \* the Node client: one call of LambdaSes.send and what came of it

vars == <<event, pc, path, idx, outputs, errs, bulkRet, calls, out, err, cl>>

\* Bounds of the model.
MaxBatch == 2
MaxEntries == 2
MaxTags == 3

-----------------------------------------------------------------------------
\* Pointers, errors

Nil == <<>>
Some(v) == <<v>>
Val(p) == p[1]

ErrorsNew(s) == [type |-> "errorString", s |-> s]

ErrContentRequired == ErrorsNew("Content is required")
ErrDestinationRequired == ErrorsNew("Destination is required")

\* Errors the SESv2 client can return from an operation.
ProviderErrors ==
    { [type |-> "OperationError", s |-> "MessageRejected"],
      [type |-> "OperationError", s |-> "TooManyRequestsException"] }

-----------------------------------------------------------------------------
\* Inputs

NoTags == <<>>

DestTo == [BccAddresses |-> <<>>, CcAddresses |-> <<>>, ToAddresses |-> <<"b@x.com">>]
DestCc == [BccAddresses |-> <<>>, CcAddresses |-> <<"c@x.com">>, ToAddresses |-> <<"d@x.com">>]

HtmlBody == [Html |-> Some([Data |-> Some("<p>hi</p>"), Charset |-> Some("UTF-8")]), Text |-> Nil]
SubjectHi == [Data |-> Some("Hi"), Charset |-> Nil]

ContentSimple ==
    [Body |-> Nil, Subject |-> Nil, Raw |-> Nil,
     Simple |-> Some([Body |-> Some(HtmlBody), Subject |-> Some(SubjectHi)]),
     Template |-> Nil]

EmailInput(content, dest) ==
    [Content |-> content,
     ConfigurationSetName |-> Nil,
     Destination |-> dest,
     EmailTags |-> ("campaign" :> "welcome"),
     FeedbackForwardingEmailAddress |-> Nil,
     FeedbackForwardingEmailAddressIdentityArn |-> Nil,
     FromEmailAddress |-> Some("a@x.com"),
     FromEmailAddressIdentityArn |-> Nil,
     ListManagementOptions |-> Nil,
     ReplyToAddresses |-> <<>>]

\* A SendEmailInput with and without each of the two validated fields.
EmailInputs ==
    { EmailInput(c, d) : c \in {Nil, Some(ContentSimple)}, d \in {Nil, Some(DestTo)} }

TemplateWelcome == [TemplateArn |-> Nil, TemplateData |-> Some("{}"), TemplateName |-> Some("welcome")]

\* Bodies and subjects of the two content dialects, told apart by their data.
BodiesOf(dialect) ==
    { [Html |-> h, Text |-> t] :
        h \in {Nil, Some([Data |-> Some(dialect \o " html"), Charset |-> Some("UTF-8")])},
        t \in {Nil, Some([Data |-> Some(dialect \o " text"), Charset |-> Nil])} }

SubjectOf(dialect) == [Data |-> Some(dialect \o " subject"), Charset |-> Some("ISO-8859-1")]

\* Every EmailContent: flat body and subject, content.simple with or without
\* its body and subject, raw and template, each absent or present.
ContentVariants ==
    [Body : {Nil} \cup { Some(b) : b \in BodiesOf("flat") },
     Subject : {Nil, Some(SubjectOf("flat"))},
     Simple : {Nil} \cup { Some(m) : m \in [Body : {Nil} \cup { Some(b) : b \in BodiesOf("nested") },
                                             Subject : {Nil, Some(SubjectOf("nested"))}] },
     Raw : {Nil, Some([Data |-> "raw bytes"])},
     Template : {Nil, Some(TemplateWelcome)}]

ReplacementData == [ReplacementTemplate |-> Some([ReplacementTemplateData |-> Some("{\"n\":1}")])]

BulkEntry(dest, content) ==
    [Destination |-> dest, ReplacementEmailContent |-> content, ReplacementTags |-> NoTags]

BulkEntries ==
    { BulkEntry(Nil, Nil), BulkEntry(Some(DestTo), Nil), BulkEntry(Some(DestCc), Some(ReplacementData)) }

BulkInput(entries, full) ==
    [BulkEmailEntries |-> entries,
     DefaultContent |-> Some([Template |-> Some(TemplateWelcome)]),
     ConfigurationSetName |-> IF full THEN Some("set") ELSE Nil,
     DefaultEmailTags |-> IF full THEN ("team" :> "ops") ELSE NoTags,
     FeedbackForwardingEmailAddress |-> IF full THEN Some("bounce@x.com") ELSE Nil,
     FeedbackForwardingEmailAddressIdentityArn |-> IF full THEN Some("arn:bounce") ELSE Nil,
     FromEmailAddress |-> Some("a@x.com"),
     FromEmailAddressIdentityArn |-> IF full THEN Some("arn:from") ELSE Nil,
     ReplyToAddresses |-> IF full THEN <<"r@x.com">> ELSE <<>>]

SeqsUpTo(S, n) == UNION { [1..k -> S] : k \in 0..n }

BulkInputs == { BulkInput(es, f) : es \in SeqsUpTo(BulkEntries, MaxEntries), f \in BOOLEAN }

\* Every HandlerInput: each field absent or present, a batch entry possibly null.
HandlerInputs ==
    [Email : {Nil} \cup { Some(e) : e \in EmailInputs },
     Emails : SeqsUpTo({Nil} \cup { Some(e) : e \in EmailInputs }, MaxBatch),
     BulkEmail : {Nil} \cup { Some(b) : b \in BulkInputs }]

-----------------------------------------------------------------------------
\* The SESv2 client: each operation either succeeds with an output or fails
\* with (nil, error).  n numbers the call, so that every result is distinct.

NoMetadata == [requestId |-> 0]

SesSendEmail(n) ==
    { [out |-> Some([MessageId |-> Some(n), ResultMetadata |-> [requestId |-> n]]), err |-> Nil] }
    \cup { [out |-> Nil, err |-> Some(e)] : e \in ProviderErrors }

BulkResultOk(i) == [Error |-> Nil, MessageId |-> Some(i), Status |-> "SUCCESS"]
BulkResultRejected(i) == [Error |-> Some("rejected"), MessageId |-> Nil, Status |-> "MESSAGE_REJECTED"]

SesSendBulkEmail(len, n) ==
    { [out |-> Some([BulkEmailEntryResults |->
                        [i \in 1..len |->
                            IF ok[i] THEN BulkResultOk(i) ELSE BulkResultRejected(i)],
                     ResultMetadata |-> [requestId |-> n]]),
       err |-> Nil] : ok \in [1..len -> BOOLEAN] }
    \cup { [out |-> Nil, err |-> Some(e)] : e \in ProviderErrors }

-----------------------------------------------------------------------------
\* main.go: translation of one SendEmailInput

Perms(S) ==
    { f \in [1..Cardinality(S) -> S] : \A i, j \in 1..Cardinality(S) : i # j => f[i] # f[j] }

\* createEmailTags that writes the key where the value belongs.
createEmailTagsKeyAsValue(inputTags) ==
    { [i \in 1..Len(ord) |-> [Name |-> Some(ord[i]), Value |-> Some(ord[i])]] :
        ord \in Perms(DOMAIN inputTags) }

\* The tag lists createEmailTags can return: Go ranges over a map in an
\* unspecified order.
createEmailTags(inputTags) ==
    { [i \in 1..Len(ord) |-> [Name |-> Some(ord[i]), Value |-> Some(inputTags[ord[i]])]] :
        ord \in Perms(DOMAIN inputTags) }

\* Validate with the two tests in the other order.
ValidateSwapped(input) ==
    IF input.Destination = Nil THEN Some(ErrDestinationRequired)
    ELSE IF input.Content = Nil THEN Some(ErrContentRequired)
    ELSE Nil

\* Validate that also asks for a content variant that can be sent.
ValidateContentVariant(input) ==
    IF input.Content = Nil THEN Some(ErrContentRequired)
    ELSE IF input.Destination = Nil THEN Some(ErrDestinationRequired)
    ELSE IF /\ Val(input.Content).Body = Nil \/ Val(input.Content).Subject = Nil
            /\ \/ Val(input.Content).Simple = Nil
               \/ Val(Val(input.Content).Simple).Body = Nil
               \/ Val(Val(input.Content).Simple).Subject = Nil
            /\ Val(input.Content).Raw = Nil
            /\ Val(input.Content).Template = Nil
    THEN Some(ErrContentRequired)
    ELSE Nil

\* sendEmailWithContext, lines 40-44: the error returned before anything is built.
Validate(input) ==
    IF input.Content = Nil THEN Some(ErrContentRequired)
    ELSE IF input.Destination = Nil THEN Some(ErrDestinationRequired)
    ELSE Nil

CopyContent(c) == [Data |-> c.Data, Charset |-> c.Charset]

\* SimpleMessage that sends html and text side by side.
SimpleMessageBoth(body, subject) ==
    [Body |-> Some([Html |-> IF body.Html # Nil THEN Some(CopyContent(Val(body.Html))) ELSE Nil,
                    Text |-> IF body.Text # Nil THEN Some(CopyContent(Val(body.Text))) ELSE Nil]),
     Subject |-> Some(CopyContent(subject))]

\* lines 71-95 and 97-121: html if present, else text if present.
SimpleMessage(body, subject) ==
    [Body |-> Some([Html |-> IF body.Html # Nil THEN Some(CopyContent(Val(body.Html))) ELSE Nil,
                    Text |-> IF body.Html = Nil /\ body.Text # Nil
                             THEN Some(CopyContent(Val(body.Text))) ELSE Nil]),
     Subject |-> Some(CopyContent(subject))]

\* ResolveSimple with content.simple tried before the flat fields.
ResolveSimpleNestedFirst(content) ==
    IF content.Simple # Nil /\ Val(content.Simple).Body # Nil /\ Val(content.Simple).Subject # Nil
    THEN Some(SimpleMessage(Val(Val(content.Simple).Body), Val(Val(content.Simple).Subject)))
    ELSE IF content.Body # Nil /\ content.Subject # Nil
    THEN Some(SimpleMessage(Val(content.Body), Val(content.Subject)))
    ELSE Nil

\* lines 70-122: the flat body and subject if both are there, else content.simple.
ResolveSimple(content) ==
    IF content.Body # Nil /\ content.Subject # Nil
    THEN Some(SimpleMessage(Val(content.Body), Val(content.Subject)))
    ELSE IF content.Simple # Nil /\ Val(content.Simple).Body # Nil /\ Val(content.Simple).Subject # Nil
    THEN Some(SimpleMessage(Val(Val(content.Simple).Body), Val(Val(content.Simple).Subject)))
    ELSE Nil

CopyDestination(d) ==
    [BccAddresses |-> d.BccAddresses, CcAddresses |-> d.CcAddresses, ToAddresses |-> d.ToAddresses]

CopyTemplate(t) ==
    [TemplateArn |-> t.TemplateArn, TemplateData |-> t.TemplateData, TemplateName |-> t.TemplateName]

\* BuildSendEmailInput that treats raw as an alternative to the simple message.
BuildSendEmailInputRawElse(input, emailTags) ==
    [Content |-> Some([Simple |-> ResolveSimple(Val(input.Content)),
                       Raw |-> IF ResolveSimple(Val(input.Content)) = Nil /\ Val(input.Content).Raw # Nil
                               THEN Some([Data |-> Val(Val(input.Content).Raw).Data]) ELSE Nil,
                       Template |-> IF Val(input.Content).Template # Nil
                                    THEN Some(CopyTemplate(Val(Val(input.Content).Template))) ELSE Nil]),
     ConfigurationSetName |-> input.ConfigurationSetName,
     Destination |-> Some(CopyDestination(Val(input.Destination))),
     EmailTags |-> emailTags,
     FeedbackForwardingEmailAddress |-> input.FeedbackForwardingEmailAddress,
     FeedbackForwardingEmailAddressIdentityArn |-> input.FeedbackForwardingEmailAddressIdentityArn,
     FromEmailAddress |-> input.FromEmailAddress,
     FromEmailAddressIdentityArn |-> input.FromEmailAddressIdentityArn,
     ListManagementOptions |->
        IF input.ListManagementOptions # Nil
        THEN Some([ContactListName |-> Val(input.ListManagementOptions).ContactListName,
                   TopicName |-> Val(input.ListManagementOptions).TopicName])
        ELSE Nil,
     ReplyToAddresses |-> input.ReplyToAddresses]

\* The sesv2.SendEmailInput built from a validated input, given its tag list.
BuildSendEmailInput(input, emailTags) ==
    [Content |-> Some([Simple |-> ResolveSimple(Val(input.Content)),
                       Raw |-> IF Val(input.Content).Raw # Nil
                               THEN Some([Data |-> Val(Val(input.Content).Raw).Data]) ELSE Nil,
                       Template |-> IF Val(input.Content).Template # Nil
                                    THEN Some(CopyTemplate(Val(Val(input.Content).Template))) ELSE Nil]),
     ConfigurationSetName |-> input.ConfigurationSetName,
     Destination |-> Some(CopyDestination(Val(input.Destination))),
     EmailTags |-> emailTags,
     FeedbackForwardingEmailAddress |-> input.FeedbackForwardingEmailAddress,
     FeedbackForwardingEmailAddressIdentityArn |-> input.FeedbackForwardingEmailAddressIdentityArn,
     FromEmailAddress |-> input.FromEmailAddress,
     FromEmailAddressIdentityArn |-> input.FromEmailAddressIdentityArn,
     ListManagementOptions |->
        IF input.ListManagementOptions # Nil
        THEN Some([ContactListName |-> Val(input.ListManagementOptions).ContactListName,
                   TopicName |-> Val(input.ListManagementOptions).TopicName])
        ELSE Nil,
     ReplyToAddresses |-> input.ReplyToAddresses]

\* The outcomes of sendEmailWithContext(ctx, input) when it is the n-th call
\* of the invocation: a nil input is dereferenced at line 40.
sendEmailWithContext(input, n) ==
    IF input = Nil
    THEN { [panic |-> TRUE, call |-> Nil, out |-> Nil, err |-> Nil] }
    ELSE IF Validate(Val(input)) # Nil
    THEN { [panic |-> FALSE, call |-> Nil, out |-> Nil, err |-> Validate(Val(input))] }
    ELSE { [panic |-> FALSE, call |-> Some(BuildSendEmailInput(Val(input), tags)),
            out |-> r.out, err |-> r.err] :
              tags \in createEmailTags(Val(input).EmailTags), r \in SesSendEmail(n) }

-----------------------------------------------------------------------------
\* main.go: sendBulkEmail

\* BuildBulkEmailEntry that leaves out replacement data that is the empty string.
BuildBulkEmailEntryNonEmpty(entry, replacementEmailTags) ==
    [Destination |-> Some(CopyDestination(Val(entry.Destination))),
     ReplacementEmailContent |->
        IF /\ entry.ReplacementEmailContent # Nil
           /\ Val(entry.ReplacementEmailContent).ReplacementTemplate # Nil
           /\ Val(Val(entry.ReplacementEmailContent).ReplacementTemplate).ReplacementTemplateData # Nil
           /\ Val(Val(entry.ReplacementEmailContent).ReplacementTemplate).ReplacementTemplateData # Some("")
        THEN Some([ReplacementTemplate |-> Some([ReplacementTemplateData |->
                Val(Val(entry.ReplacementEmailContent).ReplacementTemplate).ReplacementTemplateData])])
        ELSE Nil,
     ReplacementTags |-> replacementEmailTags]

\* lines 180-203: the types.BulkEmailEntry built from an entry that has a destination.
BuildBulkEmailEntry(entry, replacementEmailTags) ==
    [Destination |-> Some(CopyDestination(Val(entry.Destination))),
     ReplacementEmailContent |->
        IF /\ entry.ReplacementEmailContent # Nil
           /\ Val(entry.ReplacementEmailContent).ReplacementTemplate # Nil
           /\ Val(Val(entry.ReplacementEmailContent).ReplacementTemplate).ReplacementTemplateData # Nil
        THEN Some([ReplacementTemplate |-> Some([ReplacementTemplateData |->
                Val(Val(entry.ReplacementEmailContent).ReplacementTemplate).ReplacementTemplateData])])
        ELSE Nil,
     ReplacementTags |-> replacementEmailTags]

\* The range loop of lines 173-204 from entry i on, acc being bulkEmailEntries
\* so far: the possible (error, entry list) it ends with.
RECURSIVE BulkEntriesLoop(_, _, _)
BulkEntriesLoop(entries, i, acc) ==
    IF i > Len(entries) THEN { [err |-> Nil, entries |-> acc] }
    ELSE IF entries[i].Destination = Nil
    THEN { [err |-> Some(ErrDestinationRequired), entries |-> <<>>] }
    ELSE UNION { BulkEntriesLoop(entries, i + 1, Append(acc, BuildBulkEmailEntry(entries[i], t))) :
                    t \in createEmailTags(entries[i].ReplacementTags) }

\* lines 208-220: the sender fields of the sesv2.SendBulkEmailInput.
BulkSenderFields(input) ==
    [ConfigurationSetName |-> input.ConfigurationSetName,
     FeedbackForwardingEmailAddress |-> input.FeedbackForwardingEmailAddress,
     FeedbackForwardingEmailAddressIdentityArn |-> input.FeedbackForwardingEmailAddressIdentityArn,
     FromEmailAddress |-> input.FeedbackForwardingEmailAddress,
     FromEmailAddressIdentityArn |-> input.FromEmailAddressIdentityArn,
     ReplyToAddresses |-> input.ReplyToAddresses]

BuildSendBulkEmailInput(input, bulkEmailEntries, defaultEmailTags) ==
    [BulkEmailEntries |-> bulkEmailEntries,
     DefaultContent |->
        Some([Template |->
            IF input.DefaultContent # Nil /\ Val(input.DefaultContent).Template # Nil
            THEN Some(CopyTemplate(Val(Val(input.DefaultContent).Template)))
            ELSE Nil]),
     DefaultEmailTags |-> defaultEmailTags]
    @@ BulkSenderFields(input)

\* lines 206-229: the call of ses.SendBulkEmail with the assembled entries.
CallSendBulkEmail(input, bulkEmailEntries, n) ==
    { [call |-> Some(BuildSendBulkEmailInput(input, bulkEmailEntries, tags)),
       out |-> r.out, err |-> r.err] :
         tags \in createEmailTags(input.DefaultEmailTags),
         r \in SesSendBulkEmail(Len(bulkEmailEntries), n) }

\* A sendBulkEmail that skips the entries without destination and submits the rest.
sendBulkEmailPartial(input, n) ==
    UNION { CallSendBulkEmail(input, l.entries, n) :
            l \in BulkEntriesLoop(SelectSeq(input.BulkEmailEntries,
                                            LAMBDA e : e.Destination # Nil), 1, <<>>) }

\* The outcomes of sendBulkEmail(input) when it is the n-th call of the invocation.
sendBulkEmail(input, n) ==
    UNION { IF l.err # Nil
            THEN { [call |-> Nil, out |-> Nil, err |-> l.err] }
            ELSE CallSendBulkEmail(input, l.entries, n) :
            l \in BulkEntriesLoop(input.BulkEmailEntries, 1, <<>>) }

-----------------------------------------------------------------------------
\* main.go: LambdaHandler

\* The zero HandlerOutput.
EmptyOutput ==
    [Email |-> Nil, EmailError |-> Nil, Emails |-> <<>>, EmailsErrors |-> <<>>,
     BulkEmail |-> Nil, BulkEmailError |-> Nil]

\* DispatchPath with emails tested before email.
DispatchPathBatchFirst(e) ==
    IF Len(e.Emails) > 0 THEN "batch"
    ELSE IF e.Email # Nil THEN "single"
    ELSE IF e.BulkEmail # Nil THEN "bulk"
    ELSE "none"

\* The branch the if/else-if chain of lines 259-308 takes.
DispatchPath(e) ==
    IF e.Email # Nil THEN "single"
    ELSE IF Len(e.Emails) > 0 THEN "batch"
    ELSE IF e.BulkEmail # Nil THEN "bulk"
    ELSE "none"

\* convertSendEmailOutput without the copy of MessageId.
convertSendEmailOutputNoId(output) ==
    IF output = Nil
    THEN [MessageId |-> Nil, ResultMetadata |-> NoMetadata]
    ELSE [MessageId |-> Nil, ResultMetadata |-> Val(output).ResultMetadata]

convertSendEmailOutput(output) ==
    IF output = Nil
    THEN [MessageId |-> Nil, ResultMetadata |-> NoMetadata]
    ELSE [MessageId |-> Val(output).MessageId, ResultMetadata |-> Val(output).ResultMetadata]

\* SingleReturn with a nil second result.
SingleReturnNilError(output, e) ==
    [out |-> [EmptyOutput EXCEPT !.Email = Some(convertSendEmailOutput(output)),
                                 !.EmailError = e],
     err |-> Nil]

\* SingleReturn that leaves email nil when the send failed.
SingleReturnNilEmail(output, e) ==
    [out |-> [EmptyOutput EXCEPT !.Email = IF e = Nil THEN Some(convertSendEmailOutput(output)) ELSE Nil,
                                 !.EmailError = e],
     err |-> e]

\* lines 261-266: what the single branch returns for sendEmail's (output, err).
SingleReturn(output, e) ==
    [out |-> [EmptyOutput EXCEPT !.Email = Some(convertSendEmailOutput(output)),
                                 !.EmailError = e],
     err |-> e]

\* AppendResult without the else branch.
AppendResultDropErrors(os, es, output, e) ==
    IF e = Nil
    THEN [outputs |-> Append(os, output), errors |-> es]
    ELSE [outputs |-> os, errors |-> es]

\* AppendResult that puts the newest result first.
AppendResultPrepend(os, es, output, e) ==
    IF e = Nil
    THEN [outputs |-> <<output>> \o os, errors |-> es]
    ELSE [outputs |-> os, errors |-> <<Val(e)>> \o es]

\* sendEmails, lines 160-164: one result goes to one of the two lists.
AppendResult(os, es, output, e) ==
    IF e = Nil
    THEN [outputs |-> Append(os, output), errors |-> es]
    ELSE [outputs |-> os, errors |-> Append(es, Val(e))]

\* BatchReturn that also fills the single path's email field.
BatchReturnWithEmail(os, es) ==
    [out |-> [EmptyOutput EXCEPT
                !.Email = Some(convertSendEmailOutput(Nil)),
                !.Emails = [i \in 1..Len(os) |-> Some(convertSendEmailOutput(os[i]))],
                !.EmailsErrors = es],
     err |-> Nil]

\* lines 269-284: what the batch branch returns for sendEmails' (output, errs).
BatchReturn(os, es) ==
    LET convertedOutput == [i \in 1..Len(os) |-> Some(convertSendEmailOutput(os[i]))] IN
    IF Len(es) = 0
    THEN [out |-> [EmptyOutput EXCEPT !.Emails = convertedOutput], err |-> Nil]
    ELSE [out |-> [EmptyOutput EXCEPT !.Emails = convertedOutput, !.EmailsErrors = es],
          err |-> Nil]

\* BulkReturn that keeps only the accepted entries and reports the others as an error.
BulkReturnRejectsAsError(output, e) ==
    LET accepted == SelectSeq(output.BulkEmailEntryResults, LAMBDA r : r.Status = "SUCCESS") IN
    [out |-> [EmptyOutput EXCEPT
                !.BulkEmail = Some([BulkEmailEntryResults |-> accepted,
                                    ResultMetadata |-> output.ResultMetadata]),
                !.BulkEmailError =
                    IF Len(accepted) < Len(output.BulkEmailEntryResults)
                    THEN Some(ErrorsNew("rejected")) ELSE e],
     err |-> e]

\* lines 287-305, reached with a non-nil output.
BulkReturn(output, e) ==
    [out |-> [EmptyOutput EXCEPT
                !.BulkEmail = Some(
                    [BulkEmailEntryResults |->
                        [i \in 1..Len(output.BulkEmailEntryResults) |->
                            [Error |-> output.BulkEmailEntryResults[i].Error,
                             MessageId |-> output.BulkEmailEntryResults[i].MessageId,
                             Status |-> output.BulkEmailEntryResults[i].Status]],
                     ResultMetadata |-> output.ResultMetadata]),
                !.BulkEmailError = e],
     err |-> e]

\* Call with a failed call issued a second time.
CallReissueFailed(op, src, r) ==
    IF r.call = Nil THEN <<>>
    ELSE IF r.err # Nil
    THEN << [op |-> op, src |-> src, req |-> Val(r.call), out |-> r.out, err |-> r.err],
            [op |-> op, src |-> src, req |-> Val(r.call), out |-> r.out, err |-> r.err] >>
    ELSE << [op |-> op, src |-> src, req |-> Val(r.call), out |-> r.out, err |-> r.err] >>

Call(op, src, r) ==
    IF r.call = Nil THEN <<>>
    ELSE << [op |-> op, src |-> src, req |-> Val(r.call), out |-> r.out, err |-> r.err] >>

-----------------------------------------------------------------------------
\* The envelope the caller receives: lambda.Start JSON-encodes the returned
\* HandlerOutput field by field under the names of its json tags.

JsonNull == [t |-> "null"]
JsonString(s) == [t |-> "string", v |-> s]
JsonArray(items) == [t |-> "array", items |-> items]

\* An error value is encoded as the struct behind the interface: the
\* errorString of errors.New has no exported field and encodes as {}.
MarshalError(e) ==
    IF e = Nil THEN JsonNull
    ELSE IF Val(e).type = "errorString" THEN [t |-> "object"]
    ELSE [t |-> "object", of |-> Val(e).type]

MarshalSendEmailOutput(o) ==
    IF o = Nil THEN JsonNull
    ELSE [t |-> "object", messageId |-> Val(o).MessageId, metaData |-> Val(o).ResultMetadata]

MarshalHandlerOutput(o) ==
    [email |-> MarshalSendEmailOutput(o.Email),
     error |-> MarshalError(o.EmailError),
     emails |-> IF o.Emails = <<>> THEN JsonNull
                ELSE JsonArray([i \in 1..Len(o.Emails) |-> MarshalSendEmailOutput(o.Emails[i])]),
     errors |-> IF o.EmailsErrors = <<>> THEN JsonNull
                ELSE JsonArray([i \in 1..Len(o.EmailsErrors) |-> MarshalError(Some(o.EmailsErrors[i]))]),
     bulkEmail |-> IF o.BulkEmail = Nil THEN JsonNull
                   ELSE [t |-> "object", result |-> Val(o.BulkEmail).BulkEmailEntryResults,
                         metaData |-> Val(o.BulkEmail).ResultMetadata],
     bulkEmailError |-> MarshalError(o.BulkEmailError)]

-----------------------------------------------------------------------------
\* One invocation of LambdaHandler

\* No client call is under way.
ClientIdle ==
    [pc |-> "idle", named |-> Nil, functionName |-> "lambda-ses", method |-> "send",
     arg |-> JsonNull, options |-> Nil, flag |-> Nil,
     throwError |-> FALSE, invokes |-> <<>>, result |-> Nil, outcome |-> Nil]

Init ==
    /\ event \in HandlerInputs
    /\ pc = "start"
    /\ path = "none"
    /\ idx = 1
    /\ outputs = <<>>
    /\ errs = <<>>
    /\ bulkRet = [out |-> Nil, err |-> Nil]
    /\ calls = <<>>
    /\ out = EmptyOutput
    /\ err = Nil
    /\ cl = ClientIdle

\* lines 259-266
HandleEmail ==
    /\ pc = "start"
    /\ DispatchPath(event) = "single"
    /\ \E r \in sendEmailWithContext(event.Email, Len(calls) + 1) :
        /\ calls' = calls \o Call("SendEmail", "email", r)
        /\ out' = SingleReturn(r.out, r.err).out
        /\ err' = SingleReturn(r.out, r.err).err
    /\ path' = "single"
    /\ pc' = "done"
    /\ UNCHANGED <<cl, event, idx, outputs, errs, bulkRet>>

\* lines 267-268 and 153-155: sendEmails is entered.
BeginEmails ==
    /\ pc = "start"
    /\ DispatchPath(event) = "batch"
    /\ path' = "batch"
    /\ pc' = "sendEmails"
    /\ idx' = 1
    /\ outputs' = <<>>
    /\ errs' = <<>>
    /\ UNCHANGED <<cl, event, bulkRet, calls, out, err>>

\* lines 157-165: one iteration of the range loop.
SendEmailsIter ==
    /\ pc = "sendEmails"
    /\ idx <= Len(event.Emails)
    /\ \E r \in sendEmailWithContext(event.Emails[idx], Len(calls) + 1) :
        IF r.panic
        THEN /\ pc' = "panic"
             /\ UNCHANGED <<idx, outputs, errs, calls>>
        ELSE /\ calls' = calls \o Call("SendEmail", "emails", r)
             /\ outputs' = AppendResult(outputs, errs, r.out, r.err).outputs
             /\ errs' = AppendResult(outputs, errs, r.out, r.err).errors
             /\ idx' = idx + 1
             /\ pc' = pc
    /\ UNCHANGED <<cl, event, path, bulkRet, out, err>>

\* lines 167 and 269-284
ReturnEmails ==
    /\ pc = "sendEmails"
    /\ idx > Len(event.Emails)
    /\ out' = BatchReturn(outputs, errs).out
    /\ err' = BatchReturn(outputs, errs).err
    /\ pc' = "done"
    /\ UNCHANGED <<cl, event, path, idx, outputs, errs, bulkRet, calls>>

\* line 286: sendBulkEmail runs and returns.
CallBulkEmail ==
    /\ pc = "start"
    /\ DispatchPath(event) = "bulk"
    /\ \E r \in sendBulkEmail(Val(event.BulkEmail), Len(calls) + 1) :
        /\ calls' = calls \o Call("SendBulkEmail", "bulkEmail", r)
        /\ bulkRet' = [out |-> r.out, err |-> r.err]
    /\ path' = "bulk"
    /\ pc' = "bulkReturned"
    /\ UNCHANGED <<cl, event, idx, outputs, errs, out, err>>

\* lines 287-305: output.BulkEmailEntryResults dereferences output.
ConvertBulk ==
    /\ pc = "bulkReturned"
    /\ IF bulkRet.out = Nil
       THEN /\ pc' = "panic"
            /\ UNCHANGED <<out, err>>
       ELSE /\ out' = BulkReturn(Val(bulkRet.out), bulkRet.err).out
            /\ err' = BulkReturn(Val(bulkRet.out), bulkRet.err).err
            /\ pc' = "done"
    /\ UNCHANGED <<cl, event, path, idx, outputs, errs, bulkRet, calls>>

\* line 308
HandleNone ==
    /\ pc = "start"
    /\ DispatchPath(event) = "none"
    /\ out' = EmptyOutput
    /\ err' = Nil
    /\ path' = "none"
    /\ pc' = "done"
    /\ UNCHANGED <<cl, event, idx, outputs, errs, bulkRet, calls>>

Next ==
    \/ HandleEmail
    \/ BeginEmails
    \/ SendEmailsIter
    \/ ReturnEmails
    \/ CallBulkEmail
    \/ ConvertBulk
    \/ HandleNone

Spec == Init /\ [][Next]_vars

\* A single send of every kind of content.
ContentInit ==
    /\ event \in { [Email |-> Some(EmailInput(Some(c), Some(DestTo))), Emails |-> <<>>,
                    BulkEmail |-> Nil] : c \in ContentVariants }
    /\ pc = "start"
    /\ path = "none"
    /\ idx = 1
    /\ outputs = <<>>
    /\ errs = <<>>
    /\ bulkRet = [out |-> Nil, err |-> Nil]
    /\ calls = <<>>
    /\ out = EmptyOutput
    /\ err = Nil
    /\ cl = ClientIdle

SpecContent == ContentInit /\ [][HandleEmail]_vars

\* Every ReplacementEmailContent pointer of a bulk entry: nil, without
\* replacementTemplate, without data, with the empty string and with data.
ReplacementVariants ==
    { Nil,
      Some([ReplacementTemplate |-> Nil]),
      Some([ReplacementTemplate |-> Some([ReplacementTemplateData |-> Nil])]),
      Some([ReplacementTemplate |-> Some([ReplacementTemplateData |-> Some("")])]),
      Some(ReplacementData) }

\* A bulk send of entries with every kind of replacement content.
BulkInit ==
    /\ event \in { [Email |-> Nil, Emails |-> <<>>, BulkEmail |-> Some(BulkInput(es, FALSE))] :
                    es \in SeqsUpTo({ BulkEntry(d, c) : d \in {Nil, Some(DestTo)},
                                                        c \in ReplacementVariants }, MaxEntries) }
    /\ pc = "start"
    /\ path = "none"
    /\ idx = 1
    /\ outputs = <<>>
    /\ errs = <<>>
    /\ bulkRet = [out |-> Nil, err |-> Nil]
    /\ calls = <<>>
    /\ out = EmptyOutput
    /\ err = Nil
    /\ cl = ClientIdle

BulkNext ==
    \/ CallBulkEmail
    \/ ConvertBulk

SpecBulk == BulkInit /\ [][BulkNext]_vars

\* Batch entries that can be told apart by their destination.
BatchEntries ==
    {Nil} \cup { Some(EmailInput(c, d)) : c \in {Nil, Some(ContentSimple)},
                                         d \in {Nil, Some(DestTo), Some(DestCc)} }

\* A batch send, with the call of ses.SendEmail and its return as two steps.
BatchInit ==
    /\ event \in { [Email |-> Nil, Emails |-> es, BulkEmail |-> Nil] :
                    es \in SeqsUpTo(BatchEntries, MaxBatch) \ {<<>>} }
    /\ pc = "start"
    /\ path = "none"
    /\ idx = 1
    /\ outputs = <<>>
    /\ errs = <<>>
    /\ bulkRet = [out |-> Nil, err |-> Nil]
    /\ calls = <<>>
    /\ out = EmptyOutput
    /\ err = Nil
    /\ cl = ClientIdle

\* lines 157-158 and 40-145: the loop takes the next entry; sendEmailWithContext
\* returns an error at once or builds the request and calls ses.SendEmail,
\* which blocks.  A call that has not returned has neither output nor error.
IssueSendEmail ==
    /\ pc = "sendEmails"
    /\ idx <= Len(event.Emails)
    /\ \E r \in sendEmailWithContext(event.Emails[idx], Len(calls) + 1) :
        IF r.panic
        THEN /\ pc' = "panic"
             /\ UNCHANGED <<idx, outputs, errs, calls>>
        ELSE IF r.call = Nil
        THEN /\ outputs' = AppendResult(outputs, errs, r.out, r.err).outputs
             /\ errs' = AppendResult(outputs, errs, r.out, r.err).errors
             /\ idx' = idx + 1
             /\ pc' = pc
             /\ UNCHANGED calls
        ELSE /\ calls' = Append(calls, [op |-> "SendEmail", src |-> "emails", req |-> Val(r.call),
                                        out |-> Nil, err |-> Nil])
             /\ pc' = "awaitSendEmail"
             /\ UNCHANGED <<idx, outputs, errs>>
    /\ UNCHANGED <<cl, event, path, bulkRet, out, err>>

\* lines 145 and 160-164: ses.SendEmail returns and the result is appended.
ReturnSendEmail ==
    /\ pc = "awaitSendEmail"
    /\ \E r \in SesSendEmail(Len(calls)) :
        /\ calls' = [calls EXCEPT ![Len(calls)].out = r.out, ![Len(calls)].err = r.err]
        /\ outputs' = AppendResult(outputs, errs, r.out, r.err).outputs
        /\ errs' = AppendResult(outputs, errs, r.out, r.err).errors
    /\ idx' = idx + 1
    /\ pc' = "sendEmails"
    /\ UNCHANGED <<cl, event, path, bulkRet, out, err>>

BatchNext ==
    \/ BeginEmails
    \/ IssueSendEmail
    \/ ReturnSendEmail
    \/ ReturnEmails

SpecBatch == BatchInit /\ [][BatchNext]_vars

\* Tag maps of up to MaxTags keys.
TagNames == <<"campaign", "team", "lang", "tier">>
TagKeys == { TagNames[i] : i \in 1..MaxTags }
TagMaps == UNION { [K -> {"welcome", "ops"}] : K \in SUBSET TagKeys }

\* A single send with every tag map.
TagsInit ==
    /\ event \in { [Email |-> Some([EmailInput(Some(ContentSimple), Some(DestTo)) EXCEPT !.EmailTags = m]),
                    Emails |-> <<>>, BulkEmail |-> Nil] : m \in TagMaps }
    /\ pc = "start"
    /\ path = "none"
    /\ idx = 1
    /\ outputs = <<>>
    /\ errs = <<>>
    /\ bulkRet = [out |-> Nil, err |-> Nil]
    /\ calls = <<>>
    /\ out = EmptyOutput
    /\ err = Nil
    /\ cl = ClientIdle

SpecTags == TagsInit /\ [][HandleEmail]_vars

-----------------------------------------------------------------------------
\* The wire: src/src/index.ts encodes the Input with JSON.stringify, the Lambda
\* runtime decodes it into HandlerInput by the json tags of the Go structs.
\* A JavaScript or JSON value is a record tagged by its kind; a JSON text is
\* the document it denotes.

JsUndefined == [t |-> "undefined"]
JsonObject(f) == [t |-> "object", f |-> f]

\* JSON.stringify: properties that are undefined are left out, undefined
\* array elements become null.
RECURSIVE Stringify(_)
Stringify(v) ==
    CASE v.t = "object" ->
            JsonObject([k \in { x \in DOMAIN v.f : v.f[x].t # "undefined" } |-> Stringify(v.f[k])])
      [] v.t = "array" ->
            JsonArray([i \in DOMAIN v.items |->
                        IF v.items[i].t = "undefined" THEN JsonNull ELSE Stringify(v.items[i])])
      [] OTHER -> v

\* Base64 decoding, as a table over the texts that occur.
Base64Decode(s) ==
    CASE s = "aGVsbG8=" -> "hello"
      [] s = "U1RBUlQgUmVxdWVzdElk" -> "START RequestId"
      [] s = "cmF3IGJ5dGVz" -> "raw bytes"
      [] OTHER -> ""

\* Go matches an object key to a field's json tag without regard to case.
Fold(k) ==
    CASE k = "fromArn" -> "fromarn"
      [] k = "configSetName" -> "configsetname"
      [] k = "replyTo" -> "replyto"
      [] k = "feedbackForwardingEmailAddress" -> "feedbackforwardingemailaddress"
      [] k = "feedbackForwardingEmailAddressIdentityArn" -> "feedbackforwardingemailaddressidentityarn"
      [] k = "listManagementOptions" -> "listmanagementoptions"
      [] k = "contactListName" -> "contactlistname"
      [] k = "topicName" -> "topicname"
      [] k = "bulkEmail" -> "bulkemail"
      [] k = "defaultContent" -> "defaultcontent"
      [] k = "defaultTags" -> "defaulttags"
      [] k = "replacementTemplate" -> "replacementtemplate"
      [] OTHER -> k

\* Whether the object has a non-null member for the tag, and that member.
Has(obj, tag) == \E k \in DOMAIN obj.f : Fold(k) = Fold(tag) /\ obj.f[k].t # "null"
Member(obj, tag) == obj.f[CHOOSE k \in DOMAIN obj.f : Fold(k) = Fold(tag)]

DecodeStringPtr(obj, tag) == IF Has(obj, tag) THEN Some(Member(obj, tag).v) ELSE Nil

DecodeStrings(obj, tag) ==
    IF Has(obj, tag)
    THEN [i \in DOMAIN Member(obj, tag).items |-> Member(obj, tag).items[i].v]
    ELSE <<>>

DecodeMessageTag(obj, tag) ==
    IF Has(obj, tag)
    THEN [k \in DOMAIN Member(obj, tag).f |-> Member(obj, tag).f[k].v]
    ELSE NoTags

DecodeContent(obj, tag) ==
    IF Has(obj, tag)
    THEN Some([Data |-> DecodeStringPtr(Member(obj, tag), "data"),
               Charset |-> DecodeStringPtr(Member(obj, tag), "charset")])
    ELSE Nil

DecodeBody(obj, tag) ==
    IF Has(obj, tag)
    THEN Some([Html |-> DecodeContent(Member(obj, tag), "html"),
               Text |-> DecodeContent(Member(obj, tag), "text")])
    ELSE Nil

DecodeTemplate(obj, tag) ==
    IF Has(obj, tag)
    THEN Some([TemplateArn |-> DecodeStringPtr(Member(obj, tag), "arn"),
               TemplateData |-> DecodeStringPtr(Member(obj, tag), "data"),
               TemplateName |-> DecodeStringPtr(Member(obj, tag), "name")])
    ELSE Nil

DecodeEmailContent(obj, tag) ==
    IF Has(obj, tag)
    THEN Some([Body |-> DecodeBody(Member(obj, tag), "body"),
               Subject |-> DecodeContent(Member(obj, tag), "subject"),
               Raw |-> IF Has(Member(obj, tag), "raw")
                       THEN Some([Data |-> Base64Decode(Member(Member(Member(obj, tag), "raw"), "data").v)])
                       ELSE Nil,
               Simple |-> IF Has(Member(obj, tag), "simple")
                          THEN Some([Body |-> DecodeBody(Member(Member(obj, tag), "simple"), "body"),
                                     Subject |-> DecodeContent(Member(Member(obj, tag), "simple"), "subject")])
                          ELSE Nil,
               Template |-> DecodeTemplate(Member(obj, tag), "template")])
    ELSE Nil

DecodeDestination(obj, tag) ==
    IF Has(obj, tag)
    THEN Some([BccAddresses |-> DecodeStrings(Member(obj, tag), "bcc"),
               CcAddresses |-> DecodeStrings(Member(obj, tag), "cc"),
               ToAddresses |-> DecodeStrings(Member(obj, tag), "to")])
    ELSE Nil

\* A SendEmailInput from its JSON object (part_005, lines 227-289).
DecodeSendEmailInput(v) ==
    [Content |-> DecodeEmailContent(v, "content"),
     ConfigurationSetName |-> DecodeStringPtr(v, "configSetName"),
     Destination |-> DecodeDestination(v, "dest"),
     EmailTags |-> DecodeMessageTag(v, "tags"),
     FeedbackForwardingEmailAddress |-> DecodeStringPtr(v, "feedbackForwardingEmailAddress"),
     FeedbackForwardingEmailAddressIdentityArn |->
        DecodeStringPtr(v, "feedbackForwardingEmailAddressIdentityArn"),
     FromEmailAddress |-> DecodeStringPtr(v, "from"),
     FromEmailAddressIdentityArn |-> DecodeStringPtr(v, "fromArn"),
     ListManagementOptions |->
        IF Has(v, "listManagementOptions")
        THEN Some([ContactListName |-> DecodeStringPtr(Member(v, "listManagementOptions"), "contactListName"),
                   TopicName |-> DecodeStringPtr(Member(v, "listManagementOptions"), "topicName")])
        ELSE Nil,
     ReplyToAddresses |-> DecodeStrings(v, "replyTo")]

\* A BulkEmailEntry from its JSON object (types_bulk.go, lines 14-53).
DecodeBulkEmailEntry(v) ==
    [Destination |-> DecodeDestination(v, "destination"),
     ReplacementEmailContent |->
        IF Has(v, "content")
        THEN Some([ReplacementTemplate |->
                IF Has(Member(v, "content"), "replacementTemplate")
                THEN Some([ReplacementTemplateData |->
                        DecodeStringPtr(Member(Member(v, "content"), "replacementTemplate"), "data")])
                ELSE Nil])
        ELSE Nil,
     ReplacementTags |-> DecodeMessageTag(v, "tags")]

\* A BulkEmailContent (types_bulk.go, lines 57-61): the tag of Template is "temaplte".
DecodeBulkEmailContent(obj, tag) ==
    IF Has(obj, tag)
    THEN Some([Template |-> DecodeTemplate(Member(obj, tag), "temaplte")])
    ELSE Nil

\* A SendBulkEmailInput from its JSON object (types_bulk.go, lines 66-123).
DecodeSendBulkEmailInput(v) ==
    [BulkEmailEntries |->
        IF Has(v, "entries")
        THEN [i \in DOMAIN Member(v, "entries").items |->
                DecodeBulkEmailEntry(Member(v, "entries").items[i])]
        ELSE <<>>,
     DefaultContent |-> DecodeBulkEmailContent(v, "defaultContent"),
     ConfigurationSetName |-> DecodeStringPtr(v, "configSetName"),
     DefaultEmailTags |-> DecodeMessageTag(v, "defaultTags"),
     FeedbackForwardingEmailAddress |-> DecodeStringPtr(v, "feedbackForwardingEmailAddress"),
     FeedbackForwardingEmailAddressIdentityArn |->
        DecodeStringPtr(v, "feedbackForwardingEmailAddressIdentityArn"),
     FromEmailAddress |-> DecodeStringPtr(v, "from"),
     FromEmailAddressIdentityArn |-> DecodeStringPtr(v, "fromarn"),
     ReplyToAddresses |-> DecodeStrings(v, "replyTo")]

\* The HandlerInput the runtime hands to LambdaHandler (main.go, lines 232-236).
DecodeHandlerInput(v) ==
    [Email |-> IF Has(v, "email") THEN Some(DecodeSendEmailInput(Member(v, "email"))) ELSE Nil,
     Emails |->
        IF Has(v, "emails")
        THEN [i \in DOMAIN Member(v, "emails").items |->
                IF Member(v, "emails").items[i].t = "null" THEN Nil
                ELSE Some(DecodeSendEmailInput(Member(v, "emails").items[i]))]
        ELSE <<>>,
     BulkEmail |-> IF Has(v, "bulkEmail")
                   THEN Some(DecodeSendBulkEmailInput(Member(v, "bulkEmail"))) ELSE Nil]

-----------------------------------------------------------------------------
\* The Node client (src/src/index.ts): class LambdaSes and LambdaSesError.

\* Inputs a caller can hand to the client, as JavaScript objects.
ClientDest == JsonObject("to" :> JsonArray(<<JsonString("b@x.com")>>))

ClientEmail ==
    JsonObject(
        ("from" :> JsonString("a@x.com"))
        @@ ("fromArn" :> JsonString("arn:from"))
        @@ ("dest" :> ClientDest)
        @@ ("content" :> JsonObject("simple" :> JsonObject(
                ("body" :> JsonObject("html" :> JsonObject(
                    ("data" :> JsonString("<p>hi</p>")) @@ ("charset" :> JsonString("UTF-8")))))
                @@ ("subject" :> JsonObject("data" :> JsonString("Hi"))))))
        @@ ("tags" :> JsonObject("campaign" :> JsonString("welcome")))
        @@ ("configSetName" :> JsUndefined))

ClientEmailFlat ==
    JsonObject(
        ("from" :> JsonString("a@x.com"))
        @@ ("dest" :> JsonObject(("to" :> JsonArray(<<JsonString("d@x.com")>>))
                                 @@ ("cc" :> JsonArray(<<JsonString("c@x.com")>>))))
        @@ ("content" :> JsonObject(
                ("body" :> JsonObject("text" :> JsonObject("data" :> JsonString("hi"))))
                @@ ("subject" :> JsonObject("data" :> JsonString("Hi")))))
        @@ ("replyTo" :> JsonArray(<<JsonString("r@x.com")>>))
        @@ ("listManagementOptions" :> JsonObject(
                ("contactListName" :> JsonString("news")) @@ ("topicName" :> JsUndefined))))

ClientBulkEntry ==
    JsonObject(
        ("destination" :> ClientDest)
        @@ ("content" :> JsonObject("replacementTemplate" :> JsonObject("data" :> JsonString("{\"n\":1}"))))
        @@ ("tags" :> JsonObject("lang" :> JsonString("en"))))

ClientBulk(entries) ==
    JsonObject(
        ("entries" :> JsonArray(entries))
        @@ ("defaultContent" :> JsonObject("template" :> JsonObject(
                ("name" :> JsonString("welcome")) @@ ("data" :> JsonString("{}")))))
        @@ ("defaultTags" :> JsonObject("team" :> JsonString("ops")))
        @@ ("from" :> JsonString("a@x.com"))
        @@ ("fromArn" :> JsonString("arn:from"))
        @@ ("replyTo" :> JsonArray(<<JsonString("r@x.com")>>)))

ClientEmails == { ClientEmail, ClientEmailFlat }
ClientBatches == { JsonArray(<<ClientEmail>>), JsonArray(<<ClientEmailFlat, ClientEmail>>) }
ClientBulks == { ClientBulk(<<ClientBulkEntry>>),
                 ClientBulk(<<ClientBulkEntry, JsonObject("destination" :> ClientDest)>>) }

\* The calls a caller can make: the method and its first argument.
ClientCalls ==
    { [method |-> "send", arg |-> JsonObject("email" :> p)] : p \in ClientEmails }
    \cup { [method |-> "send", arg |-> JsonObject("emails" :> p)] : p \in ClientBatches }
    \cup { [method |-> "send", arg |-> JsonObject("bulkEmail" :> p)] : p \in ClientBulks }
    \cup { [method |-> "sendEmail", arg |-> p] : p \in ClientEmails }
    \cup { [method |-> "sendEmails", arg |-> p] : p \in ClientBatches }
    \cup { [method |-> "sendBulkEmail", arg |-> p] : p \in ClientBulks }

\* The transport options a caller can give; a field that is nil is not given.
NoParams == [InvocationType |-> Nil, LogType |-> Nil, Qualifier |-> Nil]

ClientParams ==
    {Nil} \cup { Some(o) : o \in [InvocationType : {Nil, Some("Event")},
                                   LogType : {Nil, Some("None")},
                                   Qualifier : {Nil, Some("live")}] }

\* constructor(lambdaInstance, functionName = "lambda-ses")
NewLambdaSes(functionName) == IF functionName = Nil THEN "lambda-ses" ELSE Val(functionName)

\* Default parameter values: params = {}, throwError = false.
ParamsOrDefault(o) == IF o = Nil THEN NoParams ELSE Val(o)
FlagOrDefault(t) == IF t = Nil THEN FALSE ELSE Val(t)

\* A text is empty or the JSON document it spells; bytes are a text in UTF-8.
EmptyText == [empty |-> TRUE, doc |-> JsonNull]
JsonText(doc) == [empty |-> FALSE, doc |-> doc]
TextEncode(text) == [utf8 |-> text]

\* new TextDecoder().decode(bytes): the empty text for undefined.
TextDecode(bytes) == IF bytes = Nil THEN EmptyText ELSE Val(bytes).utf8

\* The wrappers with the flag not handed on.
DelegateDropFlag(method, p, o, t) ==
    [payload |-> IF method = "send" THEN p
                 ELSE JsonObject((CASE method = "sendEmail" -> "email"
                                    [] method = "sendEmails" -> "emails"
                                    [] method = "sendBulkEmail" -> "bulkEmail") :> p),
     params |-> Some(ParamsOrDefault(o)),
     throwError |-> IF method = "send" THEN t ELSE Nil]

\* The arguments send is entered with: directly, or through sendEmail,
\* sendEmails or sendBulkEmail.
Delegate(method, p, o, t) ==
    CASE method = "send" -> [payload |-> p, params |-> o, throwError |-> t]
      [] method = "sendEmail" ->
            [payload |-> JsonObject("email" :> p),
             params |-> Some(ParamsOrDefault(o)), throwError |-> Some(FlagOrDefault(t))]
      [] method = "sendEmails" ->
            [payload |-> JsonObject("emails" :> p),
             params |-> Some(ParamsOrDefault(o)), throwError |-> Some(FlagOrDefault(t))]
      [] method = "sendBulkEmail" ->
            [payload |-> JsonObject("bulkEmail" :> p),
             params |-> Some(ParamsOrDefault(o)), throwError |-> Some(FlagOrDefault(t))]

\* The InvokeCommand with the defaults placed over the caller's values.
InvokeCommandDefaultsWin(functionName, payload, params) ==
    [FunctionName |-> functionName,
     InvocationType |-> "RequestResponse",
     LogType |-> "Tail",
     Payload |-> TextEncode(JsonText(Stringify(payload))),
     Qualifier |-> params.Qualifier]

\* new InvokeCommand({FunctionName, InvocationType ?? .., LogType ?? .., Payload, ...input})
InvokeCommand(functionName, payload, params) ==
    [FunctionName |-> functionName,
     InvocationType |-> IF params.InvocationType # Nil THEN Val(params.InvocationType)
                        ELSE "RequestResponse",
     LogType |-> IF params.LogType # Nil THEN Val(params.LogType) ELSE "Tail",
     Payload |-> TextEncode(JsonText(Stringify(payload))),
     Qualifier |-> params.Qualifier]

\* Documents a result payload can spell.
ErrorDocument ==
    JsonObject(("errorType" :> JsonString("errorString"))
               @@ ("errorMessage" :> JsonString("Content is required")))
OutputDocument ==
    JsonObject(("email" :> JsonObject("messageId" :> JsonString("m-1"))) @@ ("error" :> JsonNull))

\* What lambdaInstance.send resolves to, or the error it rejects with.
TransportError == [name |-> "ServiceException", message |-> "Rate exceeded"]

TransportResults ==
    { [rejected |-> TRUE, error |-> TransportError] }
    \cup { [rejected |-> FALSE, StatusCode |-> Some(sc), FunctionError |-> fe, LogResult |-> lr,
            Payload |-> pl, ExecutedVersion |-> Some("$LATEST"),
            metadata |-> [httpStatusCode |-> sc, requestId |-> "r-1"]] :
            sc \in {200, 202},
            fe \in {Nil, Some("Unhandled")},
            lr \in {Nil, Some("aGVsbG8="), Some("U1RBUlQgUmVxdWVzdElk")},
            pl \in {Nil, Some(TextEncode(EmptyText)), Some(TextEncode(JsonText(ErrorDocument))),
                    Some(TextEncode(JsonText(OutputDocument)))} }

\* `${doc.key}` in a template literal.
Interpolate(doc, key) ==
    IF doc.t = "object" /\ key \in DOMAIN doc.f /\ doc.f[key].t = "string" THEN doc.f[key].v
    ELSE "undefined"

\* result.LogResult ? Buffer.from(result.LogResult, "base64").toString("utf-8") : undefined
DecodeLogs(logResult) ==
    IF logResult # Nil /\ Val(logResult) # "" THEN Some(Base64Decode(Val(logResult))) ELSE Nil

\* A thrown error, or a returned value.
Thrown(e) == [kind |-> "thrown", error |-> e]
Resolved(v) == [kind |-> "returned", value |-> v]

SyntaxError == [name |-> "SyntaxError", message |-> "Unexpected end of JSON input"]

\* new LambdaSesError(result) with the logs left in base64.
NewLambdaSesErrorRawLogs(result) ==
    IF TextDecode(result.Payload).empty THEN Thrown(SyntaxError)
    ELSE Thrown([name |-> "LambdaSesError",
                 payload |-> TextDecode(result.Payload).doc,
                 message |-> Interpolate(TextDecode(result.Payload).doc, "errorType") \o ": "
                             \o Interpolate(TextDecode(result.Payload).doc, "errorMessage"),
                 status |-> result.StatusCode,
                 error |-> result.FunctionError,
                 logs |-> result.LogResult,
                 version |-> result.ExecutedVersion,
                 metadata |-> result.metadata])

\* throw new LambdaSesError(result): the constructor parses the payload text
\* first, and JSON.parse of the empty text throws a SyntaxError in its place.
NewLambdaSesError(result) ==
    IF TextDecode(result.Payload).empty THEN Thrown(SyntaxError)
    ELSE Thrown([name |-> "LambdaSesError",
                 payload |-> TextDecode(result.Payload).doc,
                 message |-> Interpolate(TextDecode(result.Payload).doc, "errorType") \o ": "
                             \o Interpolate(TextDecode(result.Payload).doc, "errorMessage"),
                 status |-> result.StatusCode,
                 error |-> result.FunctionError,
                 logs |-> DecodeLogs(result.LogResult),
                 version |-> result.ExecutedVersion,
                 metadata |-> result.metadata])

\* InvocationResponse with the logs left in base64.
InvocationResponseRawLogs(result) ==
    Resolved([status |-> result.StatusCode,
              error |-> result.FunctionError,
              logs |-> result.LogResult,
              payload |-> IF result.Payload # Nil /\ ~TextDecode(result.Payload).empty
                          THEN Some(TextDecode(result.Payload).doc) ELSE Nil,
              version |-> result.ExecutedVersion,
              metadata |-> result.metadata])

\* The value send returns when it does not throw.
InvocationResponse(result) ==
    Resolved([status |-> result.StatusCode,
              error |-> result.FunctionError,
              logs |-> DecodeLogs(result.LogResult),
              payload |-> IF result.Payload # Nil /\ ~TextDecode(result.Payload).empty
                          THEN Some(TextDecode(result.Payload).doc) ELSE Nil,
              version |-> result.ExecutedVersion,
              metadata |-> result.metadata])

\* send after the await, throwing on every function error.
SendOutcomeAlwaysThrow(result, throwError) ==
    IF result.rejected THEN Thrown(result.error)
    ELSE IF result.FunctionError # Nil THEN NewLambdaSesError(result)
    ELSE InvocationResponse(result)

\* send after the await: a rejection of the transport propagates, a function
\* error is thrown if asked for, and everything else is returned.
SendOutcome(result, throwError) ==
    IF result.rejected THEN Thrown(result.error)
    ELSE IF result.FunctionError # Nil /\ throwError THEN NewLambdaSesError(result)
    ELSE InvocationResponse(result)

\* The handler is not running: its variables are at rest.
HandlerAtRest ==
    /\ event = [Email |-> Nil, Emails |-> <<>>, BulkEmail |-> Nil]
    /\ pc = "off"
    /\ path = "none"
    /\ idx = 1
    /\ outputs = <<>>
    /\ errs = <<>>
    /\ bulkRet = [out |-> Nil, err |-> Nil]
    /\ calls = <<>>
    /\ out = EmptyOutput
    /\ err = Nil

\* A caller has a client and calls one of its methods.
ClientInit ==
    /\ HandlerAtRest
    /\ \E c \in ClientCalls, fn \in {Nil, Some("my-ses")}, o \in ClientParams,
          t \in {Nil, Some(FALSE), Some(TRUE)} :
        cl = [pc |-> "called", named |-> fn, functionName |-> NewLambdaSes(fn), method |-> c.method,
              arg |-> c.arg, options |-> o, flag |-> t,
              throwError |-> FALSE, invokes |-> <<>>, result |-> Nil, outcome |-> Nil]

\* The method runs up to `await this.lambdaInstance.send(config)`.
ClientInvoke ==
    /\ cl.pc = "called"
    /\ cl' = [cl EXCEPT
                !.pc = "awaiting",
                !.throwError = FlagOrDefault(Delegate(cl.method, cl.arg, cl.options, cl.flag).throwError),
                !.invokes = Append(@, InvokeCommand(cl.functionName,
                    Delegate(cl.method, cl.arg, cl.options, cl.flag).payload,
                    ParamsOrDefault(Delegate(cl.method, cl.arg, cl.options, cl.flag).params)))]
    /\ UNCHANGED <<event, pc, path, idx, outputs, errs, bulkRet, calls, out, err>>

\* The Lambda runtime decodes the payload of the request into the HandlerInput
\* that LambdaHandler is started with.
ReceiveEvent ==
    /\ pc = "off"
    /\ Len(cl.invokes) > 0
    /\ cl.invokes[1].InvocationType # "DryRun"
    /\ event' = DecodeHandlerInput(cl.invokes[1].Payload.utf8.doc)
    /\ pc' = "start"
    /\ UNCHANGED <<path, idx, outputs, errs, bulkRet, calls, out, err, cl>>

\* The transport settles and send runs to its end.
ClientSettle ==
    /\ cl.pc = "awaiting"
    /\ \E result \in TransportResults :
        cl' = [cl EXCEPT !.pc = "done", !.result = Some(result),
                         !.outcome = Some(SendOutcome(result, cl.throwError))]
    /\ UNCHANGED <<event, pc, path, idx, outputs, errs, bulkRet, calls, out, err>>

ClientNext ==
    \/ ClientInvoke
    \/ ReceiveEvent
    \/ ClientSettle

SpecClient == ClientInit /\ [][ClientNext]_vars

\* The two together: a handler invocation on any HandlerInput, or a call of
\* the client whose request the runtime decodes and the handler then serves.
SystemInit == Init \/ ClientInit

SystemNext == Next \/ ClientNext

SpecSystem == SystemInit /\ [][SystemNext]_vars

-----------------------------------------------------------------------------
\* Properties

Returned == pc = "done"
Ended == pc \in {"done", "panic"}

AllCallsFrom(src, op) == \A j \in DOMAIN calls : calls[j].src = src /\ calls[j].op = op

\* A batch entry or single input that sendEmailWithContext rejects before the call.
LacksRequired(input) == input.Content = Nil \/ input.Destination = Nil

\* C1: the handler takes the first populated field in the order email, emails,
\* bulkEmail and calls the provider only for that field; with nothing
\* populated it returns the empty output, a nil error and makes no call.
C1_FirstMatchWins ==
    pc # "start" =>
        /\ event.Email # Nil =>
              path = "single" /\ AllCallsFrom("email", "SendEmail") /\ Len(calls) <= 1
        /\ (event.Email = Nil /\ Len(event.Emails) > 0) =>
              path = "batch" /\ AllCallsFrom("emails", "SendEmail")
        /\ (event.Email = Nil /\ Len(event.Emails) = 0 /\ event.BulkEmail # Nil) =>
              path = "bulk" /\ AllCallsFrom("bulkEmail", "SendBulkEmail") /\ Len(calls) <= 1
        /\ (event.Email = Nil /\ Len(event.Emails) = 0 /\ event.BulkEmail = Nil) =>
              /\ path = "none" /\ Returned
              /\ out = [Email |-> <<>>, EmailError |-> <<>>, Emails |-> <<>>,
                        EmailsErrors |-> <<>>, BulkEmail |-> <<>>, BulkEmailError |-> <<>>]
              /\ err = Nil
              /\ calls = <<>>

\* C1 witness: all three fields populated, the single send has called the provider.
C1_Witness ==
    /\ Returned /\ event.Email # Nil /\ Len(event.Emails) > 0 /\ event.BulkEmail # Nil
    /\ Len(calls) = 1

\* C2: a single send with content and destination whose SendEmail call succeeds
\* returns email = the provider's messageId and metadata, no error in the
\* output and a nil handler error.
C2_SingleSuccess ==
    (Returned /\ path = "single" /\ ~LacksRequired(Val(event.Email))
        /\ Len(calls) = 1 /\ calls[1].err = Nil) =>
        /\ out.Email = Some([MessageId |-> Val(calls[1].out).MessageId,
                             ResultMetadata |-> Val(calls[1].out).ResultMetadata])
        /\ Val(out.Email).MessageId # Nil
        /\ out.EmailError = Nil
        /\ err = Nil

\* C2 witness: a single send that succeeded at the provider.
C2_Witness ==
    Returned /\ path = "single" /\ Len(calls) = 1 /\ calls[1].err = Nil

\* The number of entries of the batch that failed: rejected before the call,
\* or a call that returned an error.
BatchFailed ==
    Cardinality({ i \in 1..Len(event.Emails) :
                    event.Emails[i] # Nil /\ LacksRequired(Val(event.Emails[i])) })
    + Cardinality({ j \in DOMAIN calls : calls[j].err # Nil })

\* C3: a batch of N entries of which K failed returns N-K emails and K errors,
\* and no errors list at all when K = 0.
C3_BatchLengths ==
    (Returned /\ path = "batch") =>
        /\ Len(out.Emails) = Len(event.Emails) - BatchFailed
        /\ Len(out.EmailsErrors) = BatchFailed
        /\ BatchFailed = 0 => MarshalHandlerOutput(out).errors = [t |-> "null"]

\* C3 witness: a batch of two or more with both a failure and a success.
C3_Witness ==
    /\ Returned /\ path = "batch" /\ Len(event.Emails) >= 2
    /\ BatchFailed >= 1 /\ BatchFailed < Len(event.Emails)

\* C4: a batch always runs to the end: every entry is attempted and the
\* handler returns with a nil error, however many entries fail.
C4_BatchBestEffort ==
    (Ended /\ path = "batch") =>
        /\ Returned
        /\ idx = Len(event.Emails) + 1
        /\ err = Nil

\* C5: a bulk input with an entry lacking destination, at any position, makes
\* sendBulkEmail fail with "Destination is required" without any provider call.
C5_BulkNoPartialSubmission ==
    (path = "bulk" /\ pc # "start"
        /\ \E i \in 1..Len(Val(event.BulkEmail).BulkEmailEntries) :
              Val(event.BulkEmail).BulkEmailEntries[i].Destination = Nil) =>
        /\ bulkRet.err = Some([type |-> "errorString", s |-> "Destination is required"])
        /\ bulkRet.out = Nil
        /\ calls = <<>>

\* C5 witness: the entry without destination comes after one that has it.
C5_Witness ==
    /\ path = "bulk" /\ pc = "bulkReturned"
    /\ Len(Val(event.BulkEmail).BulkEmailEntries) >= 2
    /\ Val(event.BulkEmail).BulkEmailEntries[1].Destination # Nil
    /\ Val(event.BulkEmail).BulkEmailEntries[2].Destination = Nil

\* C6: when sendBulkEmail fails, the handler returns an output whose
\* bulkEmailError is that error, and the same error as its own.
C6_BulkErrorSurfaced ==
    (Ended /\ path = "bulk" /\ bulkRet.err # Nil) =>
        /\ Returned
        /\ out.BulkEmailError = bulkRet.err
        /\ err = bulkRet.err

\* C7: a single send without content fails with "Content is required" (also
\* when destination is missing too), one with content and no destination
\* with "Destination is required"; neither calls the provider.
C7_SingleValidation ==
    (Returned /\ path = "single") =>
        /\ Val(event.Email).Content = Nil =>
              /\ err = Some([type |-> "errorString", s |-> "Content is required"])
              /\ calls = <<>>
        /\ (Val(event.Email).Content # Nil /\ Val(event.Email).Destination = Nil) =>
              /\ err = Some([type |-> "errorString", s |-> "Destination is required"])
              /\ calls = <<>>

\* C7 witness: a single send with neither content nor destination has returned.
C7_Witness ==
    /\ Returned /\ path = "single"
    /\ Val(event.Email).Content = Nil /\ Val(event.Email).Destination = Nil

\* C8: a single send that fails, at validation or at the provider, returns
\* the one error both in the output's error field and as the handler error.
C8_SingleErrorBothChannels ==
    (Returned /\ path = "single"
        /\ (LacksRequired(Val(event.Email)) \/ (Len(calls) = 1 /\ calls[1].err # Nil))) =>
        /\ err # Nil
        /\ out.EmailError = err
        /\ Len(calls) = 1 => err = calls[1].err

\* C8 witness: a single send whose provider call returned an error.
C8_Witness ==
    Returned /\ path = "single" /\ Len(calls) = 1 /\ calls[1].err # Nil

\* The messages of the batch entries rejected before the call.
ValidationMessages ==
    { IF Val(event.Emails[i]).Content = Nil
      THEN "Content is required" ELSE "Destination is required" :
        i \in { k \in 1..Len(event.Emails) :
                  event.Emails[k] # Nil /\ LacksRequired(Val(event.Emails[k])) } }

\* C9: the envelope of a batch lists, in errors, the message of every entry
\* that failed validation, as a string.
C9_BatchErrorsAreMessages ==
    (Returned /\ path = "batch") =>
        \A m \in ValidationMessages :
            /\ MarshalHandlerOutput(out).errors.t = "array"
            /\ \E j \in DOMAIN MarshalHandlerOutput(out).errors.items :
                  MarshalHandlerOutput(out).errors.items[j] = [t |-> "string", v |-> m]

\* C10: the SendBulkEmail request carries the input's sender, authorization
\* and reply-to fields unchanged.
C10_BulkSenderFieldsCopied ==
    \A j \in DOMAIN calls :
        calls[j].op = "SendBulkEmail" =>
            /\ calls[j].req.FromEmailAddress = Val(event.BulkEmail).FromEmailAddress
            /\ calls[j].req.FromEmailAddressIdentityArn
                  = Val(event.BulkEmail).FromEmailAddressIdentityArn
            /\ calls[j].req.FeedbackForwardingEmailAddress
                  = Val(event.BulkEmail).FeedbackForwardingEmailAddress
            /\ calls[j].req.FeedbackForwardingEmailAddressIdentityArn
                  = Val(event.BulkEmail).FeedbackForwardingEmailAddressIdentityArn
            /\ calls[j].req.ReplyToAddresses = Val(event.BulkEmail).ReplyToAddresses
            /\ calls[j].req.ConfigurationSetName = Val(event.BulkEmail).ConfigurationSetName

\* C15: the output carries only the fields of the branch taken: email/error
\* on the single path, emails/errors on the batch path, bulkEmail/
\* bulkEmailError on the bulk path; every other field is nil.
C15_OnlyOwnFields ==
    Returned =>
        /\ path # "single" => out.Email = <<>> /\ out.EmailError = <<>>
        /\ path # "batch" => out.Emails = <<>> /\ out.EmailsErrors = <<>>
        /\ path # "bulk" => out.BulkEmail = <<>> /\ out.BulkEmailError = <<>>

\* C15 witness: each branch has returned an output with a field of its own set
\* (this one: a batch with a success and a failure).
C15_Witness ==
    Returned /\ path = "batch" /\ out.Emails # <<>> /\ out.EmailsErrors # <<>>

\* C16: when SendBulkEmail returns successfully the handler returns a nil
\* error and the provider's results, one for one and in order, with the
\* provider's metadata, whatever the status of each result.
C16_BulkStatusesAreData ==
    (Ended /\ path = "bulk" /\ Len(calls) = 1 /\ calls[1].err = Nil) =>
        /\ Returned
        /\ err = Nil
        /\ out.BulkEmailError = Nil
        /\ out.BulkEmail # Nil
        /\ Len(Val(out.BulkEmail).BulkEmailEntryResults)
              = Len(Val(calls[1].out).BulkEmailEntryResults)
        /\ \A i \in DOMAIN Val(calls[1].out).BulkEmailEntryResults :
              /\ Val(out.BulkEmail).BulkEmailEntryResults[i].Error
                    = Val(calls[1].out).BulkEmailEntryResults[i].Error
              /\ Val(out.BulkEmail).BulkEmailEntryResults[i].MessageId
                    = Val(calls[1].out).BulkEmailEntryResults[i].MessageId
              /\ Val(out.BulkEmail).BulkEmailEntryResults[i].Status
                    = Val(calls[1].out).BulkEmailEntryResults[i].Status
        /\ Val(out.BulkEmail).ResultMetadata = Val(calls[1].out).ResultMetadata

\* C16 witness: a successful call whose results hold a rejected entry after an
\* accepted one.
C16_Witness ==
    /\ Returned /\ path = "bulk" /\ Len(calls) = 1 /\ calls[1].err = Nil
    /\ Len(Val(calls[1].out).BulkEmailEntryResults) >= 2
    /\ Val(calls[1].out).BulkEmailEntryResults[1].Status = "SUCCESS"
    /\ Val(calls[1].out).BulkEmailEntryResults[2].Status = "MESSAGE_REJECTED"

\* The content of the single input, the Simple message sent for it, and the
\* body and subject the message was to be built from.
InContent == Val(Val(event.Email).Content)
SentSimple == Val(calls[1].req.Content).Simple
FlatGiven == InContent.Body # Nil /\ InContent.Subject # Nil
NestedGiven ==
    /\ InContent.Simple # Nil
    /\ Val(InContent.Simple).Body # Nil
    /\ Val(InContent.Simple).Subject # Nil

\* The message m carries the subject and nothing but parts of the body given.
BuiltFrom(m, body, subject) ==
    /\ m.Subject = Some([Data |-> subject.Data, Charset |-> subject.Charset])
    /\ m.Body # Nil
    /\ Val(m.Body).Html # Nil => Val(m.Body).Html = body.Html
    /\ Val(m.Body).Text # Nil => Val(m.Body).Text = body.Text
    /\ (body.Html # Nil \/ body.Text # Nil) => (Val(m.Body).Html # Nil \/ Val(m.Body).Text # Nil)

\* C19: the Simple message is built from the flat body and subject when both
\* are present, also beside a content.simple; else from content.simple when
\* it has body and subject; else there is none.
C19_DialectPrecedence ==
    (Returned /\ path = "single" /\ Len(calls) = 1) =>
        /\ FlatGiven =>
              /\ SentSimple # Nil
              /\ BuiltFrom(Val(SentSimple), Val(InContent.Body), Val(InContent.Subject))
        /\ (~FlatGiven /\ NestedGiven) =>
              /\ SentSimple # Nil
              /\ BuiltFrom(Val(SentSimple), Val(Val(InContent.Simple).Body),
                           Val(Val(InContent.Simple).Subject))
        /\ (~FlatGiven /\ ~NestedGiven) => SentSimple = Nil

\* C19 witness: flat body and subject sent beside a complete content.simple.
C19_Witness ==
    Returned /\ path = "single" /\ Len(calls) = 1 /\ FlatGiven /\ NestedGiven

\* The body the message is resolved from.
SourceBody ==
    IF FlatGiven THEN Val(InContent.Body) ELSE Val(Val(InContent.Simple).Body)

CallerInput ==
    CASE cl.method = "send" -> cl.arg
      [] cl.method = "sendEmail" -> JsonObject("email" :> cl.arg)
      [] cl.method = "sendEmails" -> JsonObject("emails" :> cl.arg)
      [] cl.method = "sendBulkEmail" -> JsonObject("bulkEmail" :> cl.arg)

Decoded == cl.pc \in {"awaiting", "done"} /\ pc = "start"

Populated(v, k) == v.t = "object" /\ k \in DOMAIN v.f /\ v.f[k].t \notin {"undefined", "null"}

TextsOf(v) == [i \in DOMAIN v.items |-> v.items[i].v]
TagsOf(v) == [k \in DOMAIN v.f |-> v.f[k].v]

DestinationArrived(js, go) ==
    /\ go # Nil
    /\ Populated(js, "to") => Val(go).ToAddresses = TextsOf(js.f["to"])
    /\ Populated(js, "cc") => Val(go).CcAddresses = TextsOf(js.f["cc"])
    /\ Populated(js, "bcc") => Val(go).BccAddresses = TextsOf(js.f["bcc"])

DataArrived(js, go) ==
    /\ go # Nil
    /\ Populated(js, "data") => Val(go).Data = Some(js.f["data"].v)
    /\ Populated(js, "charset") => Val(go).Charset = Some(js.f["charset"].v)

BodyArrived(js, go) ==
    /\ go # Nil
    /\ Populated(js, "html") => DataArrived(js.f["html"], Val(go).Html)
    /\ Populated(js, "text") => DataArrived(js.f["text"], Val(go).Text)

TemplateArrived(js, go) ==
    /\ go # Nil
    /\ Populated(js, "name") => Val(go).TemplateName = Some(js.f["name"].v)
    /\ Populated(js, "data") => Val(go).TemplateData = Some(js.f["data"].v)
    /\ Populated(js, "arn") => Val(go).TemplateArn = Some(js.f["arn"].v)

ContentArrived(js, go) ==
    /\ go # Nil
    /\ Populated(js, "body") => BodyArrived(js.f["body"], Val(go).Body)
    /\ Populated(js, "subject") => DataArrived(js.f["subject"], Val(go).Subject)
    /\ Populated(js, "simple") =>
        /\ Val(go).Simple # Nil
        /\ Populated(js.f["simple"], "body") =>
                BodyArrived(js.f["simple"].f["body"], Val(Val(go).Simple).Body)
        /\ Populated(js.f["simple"], "subject") =>
                DataArrived(js.f["simple"].f["subject"], Val(Val(go).Simple).Subject)
    /\ Populated(js, "template") => TemplateArrived(js.f["template"], Val(go).Template)

EmailArrived(js, go) ==
    /\ Populated(js, "from") => go.FromEmailAddress = Some(js.f["from"].v)
    /\ Populated(js, "fromArn") => go.FromEmailAddressIdentityArn = Some(js.f["fromArn"].v)
    /\ Populated(js, "configSetName") => go.ConfigurationSetName = Some(js.f["configSetName"].v)
    /\ Populated(js, "replyTo") => go.ReplyToAddresses = TextsOf(js.f["replyTo"])
    /\ Populated(js, "tags") => go.EmailTags = TagsOf(js.f["tags"])
    /\ Populated(js, "dest") => DestinationArrived(js.f["dest"], go.Destination)
    /\ Populated(js, "content") => ContentArrived(js.f["content"], go.Content)
    /\ Populated(js, "listManagementOptions") =>
        /\ go.ListManagementOptions # Nil
        /\ Populated(js.f["listManagementOptions"], "contactListName") =>
                Val(go.ListManagementOptions).ContactListName
                    = Some(js.f["listManagementOptions"].f["contactListName"].v)

BulkEntryArrived(js, go) ==
    /\ Populated(js, "destination") => DestinationArrived(js.f["destination"], go.Destination)
    /\ Populated(js, "tags") => go.ReplacementTags = TagsOf(js.f["tags"])
    /\ Populated(js, "content") =>
        /\ go.ReplacementEmailContent # Nil
        /\ Val(go.ReplacementEmailContent).ReplacementTemplate # Nil
        /\ Val(Val(go.ReplacementEmailContent).ReplacementTemplate).ReplacementTemplateData
                = Some(js.f["content"].f["replacementTemplate"].f["data"].v)

\* Everything of a bulk request but defaultContent.template.
BulkArrived(js, go) ==
    /\ Populated(js, "from") => go.FromEmailAddress = Some(js.f["from"].v)
    /\ Populated(js, "fromArn") => go.FromEmailAddressIdentityArn = Some(js.f["fromArn"].v)
    /\ Populated(js, "replyTo") => go.ReplyToAddresses = TextsOf(js.f["replyTo"])
    /\ Populated(js, "defaultTags") => go.DefaultEmailTags = TagsOf(js.f["defaultTags"])
    /\ Populated(js, "defaultContent") => go.DefaultContent # Nil
    /\ Populated(js, "entries") =>
        /\ Len(go.BulkEmailEntries) = Len(js.f["entries"].items)
        /\ \A i \in DOMAIN js.f["entries"].items :
                BulkEntryArrived(js.f["entries"].items[i], go.BulkEmailEntries[i])

BulkTemplateArrived(js, go) ==
    (Populated(js, "defaultContent") /\ Populated(js.f["defaultContent"], "template")) =>
        /\ go.DefaultContent # Nil
        /\ TemplateArrived(js.f["defaultContent"].f["template"], Val(go.DefaultContent).Template)

\* Every field of the Input but a bulk request's defaultContent.template
\* reaches the decoded HandlerInput with its value.
AllButBulkTemplateArrived ==
    Decoded =>
        /\ Populated(CallerInput, "email") =>
            event.Email # Nil /\ EmailArrived(CallerInput.f["email"], Val(event.Email))
        /\ Populated(CallerInput, "emails") =>
            /\ Len(event.Emails) = Len(CallerInput.f["emails"].items)
            /\ \A i \in DOMAIN CallerInput.f["emails"].items :
                /\ event.Emails[i] # Nil
                /\ EmailArrived(CallerInput.f["emails"].items[i], Val(event.Emails[i]))
        /\ Populated(CallerInput, "bulkEmail") =>
            event.BulkEmail # Nil /\ BulkArrived(CallerInput.f["bulkEmail"], Val(event.BulkEmail))

\* C11: every field the caller populated in the Input (dest, content, tags,
\* from, fromArn, a bulk request's entries, defaultTags and
\* defaultContent.template among them) is populated with the same value in the
\* HandlerInput the runtime decodes.
C11_RoundTripLossless ==
    /\ AllButBulkTemplateArrived
    /\ (Decoded /\ Populated(CallerInput, "bulkEmail")) =>
            BulkTemplateArrived(CallerInput.f["bulkEmail"], Val(event.BulkEmail))

\* send has finished on a transport result that reports a function error.
FunctionErrorSettled ==
    /\ cl.pc = "done"
    /\ ~Val(cl.result).rejected
    /\ Val(cl.result).FunctionError # Nil

\* The result payload is present and spells a document.
PayloadGiven == Val(cl.result).Payload # Nil /\ ~Val(Val(cl.result).Payload).utf8.empty
PayloadDocument == Val(Val(cl.result).Payload).utf8.doc

\* The text that LogResult is the base64 of.
LogsOfResult ==
    CASE Val(cl.result).LogResult = Nil -> Nil
      [] Val(cl.result).LogResult = Some("aGVsbG8=") -> Some("hello")
      [] Val(cl.result).LogResult = Some("U1RBUlQgUmVxdWVzdElk") -> Some("START RequestId")

C13_NoThrowWithoutFlag ==
    (FunctionErrorSettled /\ cl.flag \in {Nil, Some(FALSE)}) =>
        /\ Val(cl.outcome).kind = "returned"
        /\ Val(cl.outcome).value.error = Val(cl.result).FunctionError
        /\ PayloadGiven => Val(cl.outcome).value.payload = Some(PayloadDocument)

C13_Witness ==
    /\ FunctionErrorSettled
    /\ cl.flag = Nil
    /\ PayloadGiven
    /\ Val(cl.outcome).kind = "returned"
    /\ Val(cl.outcome).value.error = Some("Unhandled")
    /\ "errorMessage" \in DOMAIN Val(Val(cl.outcome).value.payload).f

\* C17: the request names the client's function ("lambda-ses" when none was
\* given), carries the caller's InvocationType and LogType when given and
\* RequestResponse and Tail otherwise, and every other option of the caller
\* as it was given.
C17_RequestOptions ==
    Len(cl.invokes) > 0 =>
        /\ cl.invokes[1].FunctionName = IF cl.named = Nil THEN "lambda-ses" ELSE Val(cl.named)
        /\ cl.invokes[1].InvocationType =
                IF cl.options # Nil /\ Val(cl.options).InvocationType # Nil
                THEN Val(Val(cl.options).InvocationType) ELSE "RequestResponse"
        /\ cl.invokes[1].LogType =
                IF cl.options # Nil /\ Val(cl.options).LogType # Nil
                THEN Val(Val(cl.options).LogType) ELSE "Tail"
        /\ cl.invokes[1].Qualifier = IF cl.options = Nil THEN Nil ELSE Val(cl.options).Qualifier

C17_Witness ==
    /\ Len(cl.invokes) > 0
    /\ cl.named = Nil
    /\ cl.options # Nil
    /\ Val(cl.options).InvocationType = Some("Event")
    /\ Val(cl.options).LogType = Nil
    /\ cl.invokes[1].FunctionName = "lambda-ses"
    /\ cl.invokes[1].InvocationType = "Event"
    /\ cl.invokes[1].LogType = "Tail"
    /\ cl.invokes[1].Qualifier = Some("live")

\* What send({key: p}, o, t) does for the call at hand: the request it issues
\* and, once the transport has settled, its outcome.
BehavesAsSend(key) ==
    /\ Len(cl.invokes) > 0 =>
        cl.invokes = << InvokeCommand(cl.functionName, JsonObject(key :> cl.arg),
                                      ParamsOrDefault(cl.options)) >>
    /\ cl.pc = "done" =>
        cl.outcome = Some(SendOutcome(Val(cl.result), FlagOrDefault(cl.flag)))

\* C18: sendEmail(p, o, t), sendEmails(p, o, t) and sendBulkEmail(p, o, t)
\* issue the request and have the outcome of send({email: p}, o, t),
\* send({emails: p}, o, t) and send({bulkEmail: p}, o, t).
C18_WrappersDelegate ==
    /\ cl.pc # "idle" /\ cl.method = "sendEmail" => BehavesAsSend("email")
    /\ cl.pc # "idle" /\ cl.method = "sendEmails" => BehavesAsSend("emails")
    /\ cl.pc # "idle" /\ cl.method = "sendBulkEmail" => BehavesAsSend("bulkEmail")

C18_Witness ==
    /\ cl.pc = "done"
    /\ cl.method = "sendBulkEmail"
    /\ cl.flag = Some(TRUE)
    /\ Val(cl.outcome).kind = "thrown"
    /\ Val(cl.outcome).error.name = "LambdaSesError"
    /\ "bulkEmail" \in DOMAIN cl.invokes[1].Payload.utf8.doc.f

\* Batch entries before the loop index that pass validation.
ValidBefore(i) ==
    { j \in 1..(i - 1) :
        /\ j <= Len(event.Emails)
        /\ event.Emails[j] # Nil
        /\ Val(event.Emails[j]).Content # Nil
        /\ Val(event.Emails[j]).Destination # Nil }

\* C14: nothing is retried.  A call of the client issues one transport invoke,
\* however the transport answers.  A handler invocation issues at most one
\* SendEmail on the single path, one SendEmail for each batch entry that
\* passes validation and none for the others on the batch path, and at most
\* one SendBulkEmail on the bulk path, whether or not a call fails.
C14_NoRetries ==
    /\ Len(cl.invokes) <= 1
    /\ cl.pc \in {"awaiting", "done"} => Len(cl.invokes) = 1
    /\ pc \in {"start", "off"} => calls = <<>>
    /\ path = "single" => Len(calls) <= 1 /\ \A j \in DOMAIN calls : calls[j].op = "SendEmail"
    /\ path = "batch" =>
        /\ Len(calls) = Cardinality(ValidBefore(idx))
        /\ \A j \in DOMAIN calls : calls[j].op = "SendEmail"
    /\ path = "bulk" => Len(calls) <= 1 /\ \A j \in DOMAIN calls : calls[j].op = "SendBulkEmail"
    /\ (path = "none" /\ pc = "done") => calls = <<>>

C14_Witness ==
    /\ cl.pc = "done"
    /\ Val(cl.result).rejected
    /\ Len(cl.invokes) = 1
    /\ pc = "done"
    /\ path = "batch"
    /\ Len(event.Emails) = 2
    /\ Len(calls) = 2
    /\ calls[1].err # Nil
    /\ calls[2].err = Nil

\* The entries of the bulk input and of the request of the bulk call.
InputEntries == Val(event.BulkEmail).BulkEmailEntries
SentEntries == calls[1].req.BulkEmailEntries

\* The replacement template data pointer of an input entry, nil when the
\* entry has no content or no replacementTemplate.
DataOf(entry) ==
    IF entry.ReplacementEmailContent = Nil THEN Nil
    ELSE IF Val(entry.ReplacementEmailContent).ReplacementTemplate = Nil THEN Nil
    ELSE Val(Val(entry.ReplacementEmailContent).ReplacementTemplate).ReplacementTemplateData

BulkCalled == event.BulkEmail # Nil /\ Len(calls) = 1 /\ calls[1].op = "SendBulkEmail"

\* C21 as stated: the provider entry carries replacement content only if the
\* entry has a non-empty replacement template data string, and nil otherwise.
C21_ReplacementOnlyNonEmpty ==
    BulkCalled =>
        \A i \in 1..Len(InputEntries) :
            SentEntries[i].ReplacementEmailContent # Nil
                <=> (DataOf(InputEntries[i]) # Nil /\ Val(DataOf(InputEntries[i])) # "")

\* C21 amended: the provider entry carries replacement content, with the
\* entry's data, exactly if the entry has a replacement template data string,
\* the empty string included; it is nil for an entry without content,
\* without replacementTemplate or without data.
C21_ReplacementWhenDataPresent ==
    BulkCalled =>
        /\ Len(SentEntries) = Len(InputEntries)
        /\ \A i \in 1..Len(InputEntries) :
            IF DataOf(InputEntries[i]) # Nil
            THEN SentEntries[i].ReplacementEmailContent
                    = Some([ReplacementTemplate |->
                            Some([ReplacementTemplateData |-> DataOf(InputEntries[i])])])
            ELSE SentEntries[i].ReplacementEmailContent = Nil

C21_Witness ==
    /\ BulkCalled
    /\ Len(InputEntries) = 2
    /\ DataOf(InputEntries[1]) = Some("")
    /\ SentEntries[1].ReplacementEmailContent # Nil
    /\ InputEntries[2].ReplacementEmailContent # Nil
    /\ DataOf(InputEntries[2]) = Nil
    /\ SentEntries[2].ReplacementEmailContent = Nil

\* C22: whenever throwError is true and the transport result reports a
\* function error, send throws a LambdaSesError carrying the status, logs,
\* version and metadata of the result, whether or not the result has a payload.
C22_AlwaysLambdaSesError ==
    (FunctionErrorSettled /\ cl.flag = Some(TRUE)) =>
        /\ Val(cl.outcome).kind = "thrown"
        /\ Val(cl.outcome).error.name = "LambdaSesError"
        /\ Val(cl.outcome).error.status = Val(cl.result).StatusCode
        /\ Val(cl.outcome).error.logs = LogsOfResult
        /\ Val(cl.outcome).error.version = Val(cl.result).ExecutedVersion
        /\ Val(cl.outcome).error.metadata = Val(cl.result).metadata

\* The elements of a set of numbers in increasing order.
SortedSeq(S) ==
    CHOOSE f \in [1..Cardinality(S) -> S] :
        \A a, b \in 1..Cardinality(S) : a < b => f[a] < f[b]

\* Batch entries that pass validation, and the number of the call made for one.
ValidEntry(i) ==
    /\ event.Emails[i] # Nil
    /\ Val(event.Emails[i]).Content # Nil
    /\ Val(event.Emails[i]).Destination # Nil
ValidEntries == { i \in 1..Len(event.Emails) : ValidEntry(i) }
CallOf(i) == CHOOSE n \in 1..Cardinality(ValidEntries) : SortedSeq(ValidEntries)[n] = i

\* A call that has been issued and has not returned.
Outstanding(j) == calls[j].out = Nil /\ calls[j].err = Nil

\* Entries the loop is done with, split by how they ended.
SucceededEntries == { i \in 1..(idx - 1) : ValidEntry(i) /\ calls[CallOf(i)].err = Nil }
FailedEntries == (1..(idx - 1)) \ SucceededEntries

ErrorOfEntry(i) ==
    IF ValidEntry(i) THEN Val(calls[CallOf(i)].err)
    ELSE IF Val(event.Emails[i]).Content = Nil
    THEN [type |-> "errorString", s |-> "Content is required"]
    ELSE [type |-> "errorString", s |-> "Destination is required"]

\* C23: the batch issues its calls one after the other and from left to
\* right: the n-th call is for the n-th entry that passes validation, the
\* call for an entry is issued only when every earlier call has returned, and
\* at most one call is outstanding.  The outputs are those of the entries that
\* succeeded and the errors those of the entries that failed, each in the
\* order of the entries, and so they are returned.
C23_SequentialInOrder ==
    path = "batch" =>
        /\ Cardinality({ j \in DOMAIN calls : Outstanding(j) }) <= 1
        /\ \A j \in DOMAIN calls : Outstanding(j) => (j = Len(calls) /\ pc = "awaitSendEmail")
        /\ Len(calls) = Cardinality(ValidBefore(idx)) + (IF pc = "awaitSendEmail" THEN 1 ELSE 0)
        /\ \A j \in DOMAIN calls :
              calls[j].req.Destination = Val(event.Emails[SortedSeq(ValidEntries)[j]]).Destination
        /\ outputs = [k \in 1..Cardinality(SucceededEntries) |->
                        calls[CallOf(SortedSeq(SucceededEntries)[k])].out]
        /\ errs = [k \in 1..Cardinality(FailedEntries) |-> ErrorOfEntry(SortedSeq(FailedEntries)[k])]
        /\ pc = "done" =>
            /\ Len(out.Emails) = Len(outputs)
            /\ \A k \in 1..Len(outputs) : Val(out.Emails[k]).MessageId = Val(outputs[k]).MessageId
            /\ out.EmailsErrors = errs

C23_Witness ==
    /\ path = "batch"
    /\ pc = "awaitSendEmail"
    /\ idx = 2
    /\ Len(calls) = 2
    /\ calls[1].err # Nil
    /\ Outstanding(2)
    /\ Val(event.Emails[1]).Destination # Val(event.Emails[2]).Destination

\* The content of the request of the single send.
SentContent == Val(calls[1].req.Content)

\* C25: raw and template go to the provider as they came whenever they are
\* present, whatever else the content holds: Raw.Data is the input's data,
\* the template's arn, data and name are the input's, and each is nil in the
\* request exactly when the input has none.
C25_RawTemplatePassThrough ==
    (path = "single" /\ Len(calls) = 1) =>
        /\ SentContent.Raw = Nil <=> InContent.Raw = Nil
        /\ InContent.Raw # Nil => Val(SentContent.Raw).Data = Val(InContent.Raw).Data
        /\ SentContent.Template = Nil <=> InContent.Template = Nil
        /\ InContent.Template # Nil =>
            /\ Val(SentContent.Template).TemplateArn = Val(InContent.Template).TemplateArn
            /\ Val(SentContent.Template).TemplateData = Val(InContent.Template).TemplateData
            /\ Val(SentContent.Template).TemplateName = Val(InContent.Template).TemplateName

C25_Witness ==
    /\ path = "single" /\ Len(calls) = 1
    /\ FlatGiven
    /\ SentContent.Simple # Nil
    /\ InContent.Raw # Nil
    /\ InContent.Template # Nil
    /\ Val(SentContent.Raw).Data = "raw bytes"
    /\ Val(SentContent.Template).TemplateName = Some("welcome")

\* The tag map of the single input and the tag list of the request made for it.
InTags == Val(event.Email).EmailTags
SentTags == calls[1].req.EmailTags

\* C26: the tag list has one (Name, Value) pair for each key of the map, with
\* Name the key and Value the map's value for it, and nothing else, in any
\* order; an empty map gives the empty list.
C26_TagsFromMap ==
    (path = "single" /\ Len(calls) = 1) =>
        /\ Len(SentTags) = Cardinality(DOMAIN InTags)
        /\ \A k \in DOMAIN InTags :
              \E i \in 1..Len(SentTags) : SentTags[i] = [Name |-> Some(k), Value |-> Some(InTags[k])]
        /\ \A i \in 1..Len(SentTags) :
              /\ Val(SentTags[i].Name) \in DOMAIN InTags
              /\ SentTags[i].Value = Some(InTags[Val(SentTags[i].Name)])
        /\ DOMAIN InTags = {} => SentTags = <<>>

C26_Witness ==
    /\ path = "single" /\ Len(calls) = 1
    /\ DOMAIN InTags = {"campaign", "team", "lang"}
    /\ InTags["campaign"] = "welcome"
    /\ InTags["team"] = "ops"
    /\ SentTags[1] = [Name |-> Some("team"), Value |-> Some("ops")]
    /\ SentTags[2] = [Name |-> Some("lang"), Value |-> Some(InTags["lang"])]
    /\ SentTags[3] = [Name |-> Some("campaign"), Value |-> Some("welcome")]

\* send has returned a response.
ResponseReturned == cl.pc = "done" /\ Val(cl.outcome).kind = "returned"

C28_NoPanic == pc # "panic"

\* C29: the single path asks only for content and destination: with both
\* present SendEmail is called exactly once, also when no content variant can
\* be resolved, and the request then carries an empty content object.
C29_OnlyPresenceValidated ==
    (Returned /\ path = "single"
        /\ Val(event.Email).Content # Nil /\ Val(event.Email).Destination # Nil) =>
        /\ Len(calls) = 1
        /\ calls[1].op = "SendEmail"
        /\ (~FlatGiven /\ ~NestedGiven /\ InContent.Raw = Nil /\ InContent.Template = Nil) =>
                calls[1].req.Content = Some([Simple |-> Nil, Raw |-> Nil, Template |-> Nil])

\* C29 witness: a flat body without subject and nothing else.
C29_Witness ==
    /\ Returned /\ path = "single"
    /\ InContent.Body # Nil /\ InContent.Subject = Nil /\ InContent.Simple = Nil
    /\ InContent.Raw = Nil /\ InContent.Template = Nil
    /\ Len(calls) = 1
    /\ calls[1].req.Content = Some([Simple |-> Nil, Raw |-> Nil, Template |-> Nil])

\* C30: the output of the single path always has an email: when the send
\* failed it is an empty SendEmailOutput, without messageId, beside the error.
C30_EmailNeverNil ==
    (Returned /\ path = "single") =>
        /\ out.Email # Nil
        /\ (LacksRequired(Val(event.Email)) \/ (Len(calls) = 1 /\ calls[1].err # Nil)) =>
            /\ Val(out.Email).MessageId = Nil
            /\ out.EmailError # Nil

\* C30 witness: a failed send whose output has both email and error.
C30_Witness ==
    /\ Returned /\ path = "single"
    /\ Len(calls) = 1 /\ calls[1].err # Nil
    /\ out.Email # Nil /\ Val(out.Email).MessageId = Nil
    /\ out.EmailError # Nil

====
